---------------------------- MODULE Spec2Model ----------------------------
(***************************************************************************)
(* A model of pip_exec/src/main.c: main(argc, argv) prints a greeting, the *)
(* argument count, and one line per argument, then returns 0.              *)
(*                                                                         *)
(* Text is a sequence of characters, each character a one-character        *)
(* string.  Standard output is kept as the sequence of the texts the       *)
(* printf calls wrote, in call order; Stream is the byte stream a reader   *)
(* of standard output sees, and LinesOf splits a stream at its newlines.   *)
(***************************************************************************)
EXTENDS Integers, Sequences, FiniteSets

(***************************************************************************)
(* Bounds of the model.                                                    *)
(***************************************************************************)
\* Argument vectors of every length 0..MaxArgc over ArgValues are explored.
MaxArgc == 3
\* Argument values hold every text over Chars of length 0..MaxStrLen.
MaxStrLen == 1
\* Vectors of MaxArgc+1..MaxWideArgc equal arguments (decimal counts and
\* indices of more than one digit).
MaxWideArgc == 11
NL == "\n"

Chars == {"a", NL}

RECURSIVE TextsOfLen(_)
TextsOfLen(n) ==
    IF n = 0 THEN {<< >>}
    ELSE {<<c>> \o t : c \in Chars, t \in TextsOfLen(n - 1)}

\* Longer argument texts: an embedded space before a printf conversion, and
\* a newline inside text.
SampleArgs ==
    { <<"a", " ", "%", "d">>,
      <<"p", NL, "q">> }

ArgValues == UNION {TextsOfLen(n) : n \in 0..MaxStrLen} \cup SampleArgs

\* argv[0..argc-1] as the hosting environment hands it to main.
ArgVectors ==
    UNION {[0..(n - 1) -> ArgValues] : n \in 0..MaxArgc}
    \cup {[k \in 0..(n - 1) |-> v] : n \in (MaxArgc + 1)..MaxWideArgc, v \in ArgValues}

\* What the environment holds besides the argument vector.
Envs == {"env1", "env2"}

(***************************************************************************)
(* printf                                                                  *)
(***************************************************************************)
Digit(d) ==
    CASE d = 0 -> "0" [] d = 1 -> "1" [] d = 2 -> "2" [] d = 3 -> "3"
      [] d = 4 -> "4" [] d = 5 -> "5" [] d = 6 -> "6" [] d = 7 -> "7"
      [] d = 8 -> "8" [] d = 9 -> "9"

RECURSIVE DecNat(_)
DecNat(n) ==
    IF n < 10 THEN <<Digit(n)>>
    ELSE DecNat(n \div 10) \o <<Digit(n % 10)>>

\* The %d conversion of an int.
Dec(n) == IF n < 0 THEN <<"-">> \o DecNat(-n) ELSE DecNat(n)

\* printf(fmt, args...): the text written.  %d takes the next argument as
\* an int, %s takes the next argument as a string and copies it; any other
\* character is copied.
RECURSIVE Format(_, _)
Format(fmt, args) ==
    IF fmt = << >> THEN << >>
    ELSE IF Head(fmt) = "%" /\ Len(fmt) >= 2 /\ fmt[2] = "d"
         THEN Dec(Head(args)) \o Format(SubSeq(fmt, 3, Len(fmt)), Tail(args))
    ELSE IF Head(fmt) = "%" /\ Len(fmt) >= 2 /\ fmt[2] = "s"
         THEN Head(args) \o Format(SubSeq(fmt, 3, Len(fmt)), Tail(args))
    ELSE <<Head(fmt)>> \o Format(Tail(fmt), args)

\* "Hello from C executable!\n"
GreetingFmt ==
    << "H","e","l","l","o"," ","f","r","o","m"," ","C"," ",
       "e","x","e","c","u","t","a","b","l","e","!", NL >>

\* "Received %d arguments:\n"
CountFmt ==
    << "R","e","c","e","i","v","e","d"," ","%","d"," ",
       "a","r","g","u","m","e","n","t","s",":", NL >>

\* Fault: the echo format with one leading space instead of two.
EchoFmt_OneSpace ==
    << " ","a","r","g","v","[","%","d","]",":"," ","%","s", NL >>

\* "  argv[%d]: %s\n"
EchoFmt ==
    << " "," ","a","r","g","v","[","%","d","]",":"," ","%","s", NL >>

(***************************************************************************)
(* State                                                                   *)
(***************************************************************************)
VARIABLES
    argc,       \* main's parameter argc
    argv,       \* main's parameter argv: [0..argc-1 -> text]
    env,        \* the rest of the environment the process was started in
    pc,         \* the statement main is at
    i,          \* the loop index
    stdout,     \* the texts written to standard output, one per printf call
    reads,      \* the indices at which argv was read, in order
    status,     \* << >> while main runs, <<s>> once it has returned s
    prev        \* under SpecRerun: [env, out, status] of the earlier run

vars == <<argc, argv, env, pc, i, stdout, reads, status, prev>>

Init ==
    /\ argv \in ArgVectors
    /\ argc = Cardinality(DOMAIN argv)
    /\ env \in Envs
    /\ pc = "greet"
    /\ i = 0
    /\ stdout = << >>
    /\ reads = << >>
    /\ status = << >>
    /\ prev = << >>

(***************************************************************************)
(* main, statement by statement                                            *)
(***************************************************************************)
\* Fault: the greeting names what the environment holds.
PrintGreeting_FromEnv ==
    /\ pc = "greet"
    /\ stdout' = Append(stdout, Format(GreetingFmt, << >>) \o <<env, NL>>)
    /\ pc' = "count"
    /\ UNCHANGED <<argc, argv, env, i, reads, status, prev>>

\* line 4: printf("Hello from C executable!\n");
PrintGreeting ==
    /\ pc = "greet"
    /\ stdout' = Append(stdout, Format(GreetingFmt, << >>))
    /\ pc' = "count"
    /\ UNCHANGED <<argc, argv, env, i, reads, status, prev>>

\* Fault: the count leaves the invocation name out.
PrintCount_WithoutName ==
    /\ pc = "count"
    /\ stdout' = Append(stdout, Format(CountFmt, <<argc - 1>>))
    /\ pc' = "init"
    /\ UNCHANGED <<argc, argv, env, i, reads, status, prev>>

\* line 5: printf("Received %d arguments:\n", argc);
PrintCount ==
    /\ pc = "count"
    /\ stdout' = Append(stdout, Format(CountFmt, <<argc>>))
    /\ pc' = "init"
    /\ UNCHANGED <<argc, argv, env, i, reads, status, prev>>

\* line 6: int i = 0
LoopInit ==
    /\ pc = "init"
    /\ i' = 0
    /\ pc' = "test"
    /\ UNCHANGED <<argc, argv, env, stdout, reads, status, prev>>

\* Fault: the loop stops one argument early (i < argc - 1).
LoopTest_OneShort ==
    /\ pc = "test"
    /\ \/ i < argc - 1 /\ pc' = "body"
       \/ ~(i < argc - 1) /\ pc' = "ret"
    /\ UNCHANGED <<argc, argv, env, i, stdout, reads, status, prev>>

\* Fault: the loop runs one index too far (i <= argc).
LoopTest_Inclusive ==
    /\ pc = "test"
    /\ \/ i <= argc /\ pc' = "body"
       \/ ~(i <= argc) /\ pc' = "ret"
    /\ UNCHANGED <<argc, argv, env, i, stdout, reads, status, prev>>

\* line 6: i < argc
LoopTest ==
    /\ pc = "test"
    /\ \/ i < argc /\ pc' = "body"
       \/ ~(i < argc) /\ pc' = "ret"
    /\ UNCHANGED <<argc, argv, env, i, stdout, reads, status, prev>>

\* argv[k] as printf's %s sees it.  argv holds argc strings; argv[argc] is
\* a null pointer and what lies past it is not the program's: handing
\* either to %s is undefined, and the text written is then any text.
ArgAt(k) ==
    IF k \in DOMAIN argv THEN {argv[k]}
    ELSE {<< >>, <<"(", "n", "u", "l", "l", ")">>}

\* Fault: every echo line prints argv[0].
PrintArg_AlwaysFirst ==
    /\ pc = "body"
    /\ \E v \in ArgAt(0) : stdout' = Append(stdout, Format(EchoFmt, <<i, v>>))
    /\ reads' = Append(reads, 0)
    /\ pc' = "incr"
    /\ UNCHANGED <<argc, argv, env, i, status, prev>>

\* Fault: the arguments are echoed from the last to the first.
PrintArg_Reversed ==
    /\ pc = "body"
    /\ \E v \in ArgAt(argc - 1 - i) :
           stdout' = Append(stdout, Format(EchoFmt, <<argc - 1 - i, v>>))
    /\ reads' = Append(reads, argc - 1 - i)
    /\ pc' = "incr"
    /\ UNCHANGED <<argc, argv, env, i, status, prev>>

\* Fault: an argument is cleared once it has been echoed.
PrintArg_Consumes ==
    /\ pc = "body"
    /\ \E v \in ArgAt(i) : stdout' = Append(stdout, Format(EchoFmt, <<i, v>>))
    /\ reads' = Append(reads, i)
    /\ argv' = [argv EXCEPT ![i] = << >>]
    /\ pc' = "incr"
    /\ UNCHANGED <<argc, env, i, status, prev>>

\* line 7: printf("  argv[%d]: %s\n", i, argv[i]);
PrintArg ==
    /\ pc = "body"
    /\ \E v \in ArgAt(i) : stdout' = Append(stdout, Format(EchoFmt, <<i, v>>))
    /\ reads' = Append(reads, i)
    /\ pc' = "incr"
    /\ UNCHANGED <<argc, argv, env, i, status, prev>>

\* Fault: the index goes up by two.
Increment_ByTwo ==
    /\ pc = "incr"
    /\ i' = i + 2
    /\ pc' = "test"
    /\ UNCHANGED <<argc, argv, env, stdout, reads, status, prev>>

\* line 6: ++i
Increment ==
    /\ pc = "incr"
    /\ i' = i + 1
    /\ pc' = "test"
    /\ UNCHANGED <<argc, argv, env, stdout, reads, status, prev>>

\* Fault: an invocation without extra arguments is reported as a failure.
Return_FailsWithoutArguments ==
    /\ pc = "ret"
    /\ status' = <<IF argc > 1 THEN 0 ELSE 1>>
    /\ pc' = "done"
    /\ UNCHANGED <<argc, argv, env, i, stdout, reads, prev>>

\* line 16: return 0;
Return ==
    /\ pc = "ret"
    /\ status' = <<0>>
    /\ pc' = "done"
    /\ UNCHANGED <<argc, argv, env, i, stdout, reads, prev>>

Next ==
    \/ PrintGreeting
    \/ PrintCount
    \/ LoopInit
    \/ LoopTest
    \/ PrintArg
    \/ Increment
    \/ Return

Spec == Init /\ [][Next]_vars

(***************************************************************************)
(* Starting the process a second time on the same argument vector.  The    *)
(* rest of the environment may differ between the two starts.              *)
(***************************************************************************)
Stream == LET RECURSIVE Concat(_)
              Concat(s) == IF s = << >> THEN << >> ELSE Head(s) \o Concat(Tail(s))
          IN Concat(stdout)

\* line 3: main is entered again with the argc and argv of the earlier run.
Rerun ==
    /\ pc = "done"
    /\ prev = << >>
    /\ prev' = Append(prev, [env |-> env, out |-> Stream, status |-> status])
    /\ env' \in Envs
    /\ pc' = "greet"
    /\ i' = 0
    /\ stdout' = << >>
    /\ reads' = << >>
    /\ status' = << >>
    /\ UNCHANGED <<argc, argv>>

NextRerun == Next \/ Rerun

SpecRerun == Init /\ [][NextRerun]_vars

\* main is the only thread and none of its statements waits: a statement
\* that can run does run.
FairSpec == Spec /\ WF_vars(Next)

(***************************************************************************)
(* Reading standard output                                                 *)
(***************************************************************************)
NumNewlines(t) == Cardinality({k \in 1..Len(t) : t[k] = NL})

\* The first position of character c in text t, 0 when it has none.
FirstPos(t, c) ==
    IF \E k \in 1..Len(t) : t[k] = c
    THEN CHOOSE k \in 1..Len(t) : t[k] = c /\ \A j \in 1..(k - 1) : t[j] # c
    ELSE 0

\* The lines of a stream: the texts between its newlines; text after the
\* last newline is a last, unterminated line.
RECURSIVE LinesOf(_)
LinesOf(t) ==
    IF t = << >> THEN << >>
    ELSE LET k == FirstPos(t, NL)
         IN IF k = 0 THEN <<t>>
            ELSE <<SubSeq(t, 1, k - 1)>> \o LinesOf(SubSeq(t, k + 1, Len(t)))

StartsWith(t, p) == Len(t) >= Len(p) /\ SubSeq(t, 1, Len(p)) = p

EndsWith(t, p) == Len(t) >= Len(p) /\ SubSeq(t, Len(t) - Len(p) + 1, Len(t)) = p

IsDigits(t) ==
    /\ Len(t) >= 1
    /\ \A k \in 1..Len(t) : t[k] \in {"0", "1", "2", "3", "4", "5", "6", "7", "8", "9"}

DigitVal(c) ==
    CASE c = "0" -> 0 [] c = "1" -> 1 [] c = "2" -> 2 [] c = "3" -> 3
      [] c = "4" -> 4 [] c = "5" -> 5 [] c = "6" -> 6 [] c = "7" -> 7
      [] c = "8" -> 8 [] c = "9" -> 9

\* The number a decimal numeral without sign denotes, -1 for any other text.
RECURSIVE ParseNat(_)
ParseNat(t) ==
    IF ~IsDigits(t) THEN -1
    ELSE IF Len(t) = 1 THEN DigitVal(t[1])
    ELSE ParseNat(SubSeq(t, 1, Len(t) - 1)) * 10 + DigitVal(t[Len(t)])

GreetingLine ==
    << "H","e","l","l","o"," ","f","r","o","m"," ","C"," ",
       "e","x","e","c","u","t","a","b","l","e","!" >>

CountHead == << "R","e","c","e","i","v","e","d"," " >>

CountTail == << " ","a","r","g","u","m","e","n","t","s",":" >>

EchoHead == << " "," ","a","r","g","v","[" >>

EchoMid == << "]",":"," " >>

IsGreeting(t) == t = GreetingLine \o <<NL>>

IsCount(t) == StartsWith(t, CountHead) /\ EndsWith(t, CountTail \o <<NL>>)

\* The number a count line states, -1 when t is no count line.
CountOf(t) ==
    IF IsCount(t)
    THEN ParseNat(SubSeq(t, Len(CountHead) + 1, Len(t) - Len(CountTail) - 1))
    ELSE -1

IsEcho(t) ==
    /\ StartsWith(t, EchoHead)
    /\ EndsWith(t, <<NL>>)
    /\ LET p == FirstPos(t, "]")
       IN /\ p > Len(EchoHead) + 1
          /\ IsDigits(SubSeq(t, Len(EchoHead) + 1, p - 1))
          /\ StartsWith(SubSeq(t, p, Len(t)), EchoMid)

\* The index an echo line carries, -1 when t is no echo line.
EchoIndexOf(t) ==
    IF IsEcho(t)
    THEN ParseNat(SubSeq(t, Len(EchoHead) + 1, FirstPos(t, "]") - 1))
    ELSE -1

\* The text of an echo line after "argv[i]: ", up to its closing newline.
EchoValueOf(t) == SubSeq(t, FirstPos(t, "]") + Len(EchoMid), Len(t) - 1)

\* The echo lines written so far: the writes after the count line.
EchoWrites == SubSeq(stdout, 3, Len(stdout))

\* The newline characters in argv[0..n-1].
RECURSIVE ArgNewlines(_)
ArgNewlines(n) ==
    IF n = 0 THEN 0 ELSE ArgNewlines(n - 1) + NumNewlines(argv[n - 1])

Done == pc = "done"

(***************************************************************************)
(* Claims                                                                  *)
(***************************************************************************)

\* C1 as stated: for every argument vector of length N >= 1, whatever the
\* argument texts, the complete standard output has exactly N+2 lines.
C1_ExactlyNPlus2Lines ==
    (Done /\ argc >= 1) => Len(LinesOf(Stream)) = argc + 2

\* C1 as amended: for N >= 1 main makes exactly N+2 writes, each ending in
\* a newline: one greeting line, one count line stating N and N echo lines;
\* the complete standard output has N+2 lines plus one more line for every
\* newline character in the arguments, so exactly N+2 lines when no
\* argument holds a newline.
C1_LinesCountNewlinesInArgs ==
    (Done /\ argc >= 1) =>
        /\ Len(stdout) = argc + 2
        /\ \A k \in 1..Len(stdout) : EndsWith(stdout[k], <<NL>>)
        /\ IsGreeting(stdout[1])
        /\ CountOf(stdout[2]) = argc
        /\ \A k \in 3..Len(stdout) : IsEcho(stdout[k])
        /\ Len(LinesOf(Stream)) = argc + 2 + ArgNewlines(argc)
        /\ (ArgNewlines(argc) = 0 => Len(LinesOf(Stream)) = argc + 2)

C1_Witness ==
    /\ Done
    /\ argc = 3
    /\ ArgNewlines(argc) = 2
    /\ Len(LinesOf(Stream)) = 7

\* C2: for every position k in 0..N-1, the k-th echo line written carries
\* the index k, and its text after "argv[k]: " is exactly argv[k], also
\* when argv[k] is empty or holds whitespace or special characters.
C2_EchoCarriesIndexAndValue ==
    \A k \in 0..(argc - 1) :
        k + 1 <= Len(EchoWrites) =>
            /\ EchoIndexOf(EchoWrites[k + 1]) = k
            /\ EchoValueOf(EchoWrites[k + 1]) = argv[k]

C2_Witness ==
    /\ Done
    /\ argc = 3
    /\ argv[0] = <<"a", " ", "%", "d">>
    /\ argv[1] = << >>
    /\ argv[2] = <<"p", NL, "q">>
    /\ EchoValueOf(EchoWrites[2]) = << >>
    /\ EchoValueOf(EchoWrites[3]) = <<"p", NL, "q">>

\* C3: when main has terminated, the number the count line states equals
\* the number of echo lines written after it.
C3_CountEqualsEchoLines ==
    Done =>
        /\ Len(stdout) >= 2
        /\ CountOf(stdout[2]) =
               Cardinality({k \in 3..Len(stdout) : IsEcho(stdout[k])})
        /\ CountOf(stdout[2]) = Len(EchoWrites)

C3_Witness ==
    /\ Done
    /\ CountOf(stdout[2]) = 10
    /\ Len(EchoWrites) = 10

\* C4: main returns status 0 for every argument vector, the one holding
\* only the invocation name included; no run ends with another status.
C4_ExitStatusZero ==
    /\ Done => status = <<0>>
    /\ \A k \in 1..Len(status) : status[k] = 0
    /\ ~Done => status = << >>

C4_Witness ==
    /\ Done
    /\ argc = 1
    /\ status = <<0>>

\* C5: the writes happen in a fixed order: a step that writes appends one
\* text to standard output; the first text written is the greeting line,
\* the second the count line, and the text written after k+2 others is the
\* echo line of index k, so echo lines follow the count line in strictly
\* increasing index order.
C5_WriteOrder ==
    [][stdout' # stdout =>
          /\ Len(stdout') = Len(stdout) + 1
          /\ SubSeq(stdout', 1, Len(stdout)) = stdout
          /\ LET t == stdout'[Len(stdout')]
             IN /\ Len(stdout) = 0 => IsGreeting(t)
                /\ Len(stdout) = 1 => IsCount(t)
                /\ Len(stdout) >= 2 => EchoIndexOf(t) = Len(stdout) - 2
                /\ IsGreeting(t) => Len(stdout) = 0
                /\ IsCount(t) => Len(stdout) = 1
      ]_vars

C5_Witness ==
    /\ Done
    /\ argc = 3
    /\ EchoIndexOf(stdout[3]) = 0
    /\ EchoIndexOf(stdout[4]) = 1
    /\ EchoIndexOf(stdout[5]) = 2

\* d is the decimal numeral of n: its digits denote n and it has no
\* leading zero.
IsNumeralOf(d, n) == ParseNat(d) = n /\ (Len(d) = 1 \/ d[1] # "0")

\* The text of t between a head and a tail it is known to have.
Between(t, head, tail) == SubSeq(t, Len(head) + 1, Len(t) - Len(tail))

\* The count line of n arguments, and the echo line of index k and value v.
IsCountLineOf(l, n) ==
    /\ StartsWith(l, CountHead)
    /\ EndsWith(l, CountTail)
    /\ IsNumeralOf(Between(l, CountHead, CountTail), n)

IsEchoLineOf(l, k, v) ==
    /\ StartsWith(l, EchoHead)
    /\ EndsWith(l, EchoMid \o v)
    /\ IsNumeralOf(Between(l, EchoHead, EchoMid \o v), k)

\* "Received 1 arguments:"
CountLineOfOne ==
    << "R","e","c","e","i","v","e","d"," ","1"," ",
       "a","r","g","u","m","e","n","t","s",":" >>

\* "  argv[0]: "
EchoHeadOfZero == << " "," ","a","r","g","v","[","0","]",":"," " >>

\* What C6 says of every output: the first line is the fixed greeting, the
\* second is "Received N arguments:" with N = argc, and the echo line of
\* index k is two spaces, "argv[k]: " and the value.
FormatFollowed ==
    /\ Len(LinesOf(Stream)) >= 2
    /\ LinesOf(Stream)[1] = GreetingLine
    /\ IsCountLineOf(LinesOf(Stream)[2], argc)
    /\ Len(EchoWrites) = argc
    /\ \A k \in 0..(argc - 1) :
           /\ EndsWith(EchoWrites[k + 1], <<NL>>)
           /\ IsEchoLineOf(SubSeq(EchoWrites[k + 1], 1, Len(EchoWrites[k + 1]) - 1),
                           k, argv[k])

\* What C6 says of an invocation with the program name only.
ThreeLines ==
    /\ Len(LinesOf(Stream)) = 3
    /\ LinesOf(Stream)[2] = CountLineOfOne
    /\ LinesOf(Stream)[3] = EchoHeadOfZero \o argv[0]

\* C6 as stated: the output follows the format exactly, and an invocation
\* with only the program name yields exactly 3 lines, the count line
\* "Received 1 arguments:" and the single echo line for argv[0].
C6_FormatAndThreeLinesForNameOnly ==
    Done => FormatFollowed /\ (argc = 1 => ThreeLines)

\* C6 as amended: the output follows the format exactly, and an invocation
\* with only the program name, the name holding no newline character,
\* yields exactly 3 lines, the count line "Received 1 arguments:" and the
\* single echo line for argv[0].
C6_FormatAndThreeLinesForPlainName ==
    Done => FormatFollowed /\ (argc = 1 /\ NumNewlines(argv[0]) = 0 => ThreeLines)

C6_Witness ==
    /\ Done
    /\ argc = 1
    /\ argv[0] = <<"a", " ", "%", "d">>
    /\ LinesOf(Stream) =
           << GreetingLine, CountLineOfOne, EchoHeadOfZero \o <<"a", " ", "%", "d">> >>

\* C7: the output is deterministic: every run started with the same
\* argument vector writes the same output and returns the same status as
\* the runs before it, whatever the rest of the environment holds.
C7_SameOutputEveryRun ==
    Done => \A k \in 1..Len(prev) : prev[k].out = Stream /\ prev[k].status = status

C7_Witness ==
    /\ Done
    /\ Len(prev) = 1
    /\ prev[1].env # env
    /\ argc = 3
    /\ prev[1].out = Stream

\* C8: main leaves the argument list unchanged: no step changes argc, any
\* argv[k] or the environment; the only thing a step changes besides main's
\* own position and index is standard output, which only grows by appending.
C8_ArgumentsUnchanged ==
    [][/\ argc' = argc
       /\ argv' = argv
       /\ env' = env
       /\ Len(stdout') >= Len(stdout)
       /\ SubSeq(stdout', 1, Len(stdout)) = stdout
      ]_vars

C8_Witness ==
    /\ Done
    /\ argc = 3
    /\ Len(stdout) = 5
    /\ argv[2] = <<"a", " ", "%", "d">>

\* C9: main always terminates: the index goes up by one at a time from 0,
\* the echo loop runs exactly argc iterations, reading argv[0..argc-1] in
\* order, and main then returns and stays terminated.
C9_Terminates ==
    /\ <>[](Done /\ i = argc /\ Len(reads) = argc
                 /\ \A k \in 1..Len(reads) : reads[k] = k - 1)
    /\ [][i' # i => i' = i + 1]_vars

C9_Witness ==
    /\ Done
    /\ argc = 3
    /\ reads = <<0, 1, 2>>

\* C10 as stated: in every state of the echo loop 0 <= i <= argc, argv is
\* read only at indices 0..argc-1, and the number of echo lines written so
\* far equals i; with argc = 0 the body never runs and the output is the
\* greeting line and "Received 0 arguments:".
InLoop == pc \in {"test", "body", "incr"}

ReadsInBounds == \A k \in 1..Len(reads) : 0 <= reads[k] /\ reads[k] < argc

EmptyVectorOutput ==
    (Done /\ argc = 0) =>
        /\ reads = << >>
        /\ LinesOf(Stream) = <<GreetingLine, CountHead \o <<"0">> \o CountTail>>

C10_EchoCountIsIndexInEveryLoopState ==
    /\ InLoop => 0 <= i /\ i <= argc /\ Len(EchoWrites) = i
    /\ ReadsInBounds
    /\ EmptyVectorOutput

\* C10 as amended: in every state of the echo loop 0 <= i <= argc and argv
\* is read only at indices 0..argc-1; the number of echo lines written so
\* far equals i whenever the loop condition is evaluated and when the body
\* is entered, and i + 1 between the body's printf and ++i; with argc = 0
\* the body never runs and the output is the greeting line and
\* "Received 0 arguments:".
C10_EchoCountIsIndexAtLoopTest ==
    /\ InLoop => 0 <= i /\ i <= argc
    /\ pc \in {"test", "body"} => Len(EchoWrites) = i
    /\ pc = "incr" => Len(EchoWrites) = i + 1 /\ i < argc
    /\ ReadsInBounds
    /\ EmptyVectorOutput

C10_Witness ==
    /\ pc = "test"
    /\ argc = 3
    /\ i = 3
    /\ Len(EchoWrites) = 3
    /\ reads = <<0, 1, 2>>

=============================================================================
